---- MODULE Spec2Model ----
(***************************************************************************)
(* A model of the task manager: the task table kept by DatabaseManager     *)
(* (src/database/database_manager.py), the TaskService operations on it    *)
(* (src/task_service.py) and the Flask handlers in front of them           *)
(* (src/app.py).                                                           *)
(*                                                                         *)
(* Values are the JSON values a caller can put in a request body and the   *)
(* values SQLite stores: null, integers, text and (requests only) JSON     *)
(* arrays, which sqlite3 cannot bind.  A text is a sequence of symbols;    *)
(* the words of the status vocabulary are written as one symbol each, as   *)
(* no statement looks inside a status.                                     *)
(***************************************************************************)
EXTENDS Integers, Sequences, FiniteSets, TLC

VARIABLES tasks, issued, now, last, config, files, store, cm, conns, procs

vars == <<tasks, issued, now, last, config, files, store, cm, conns, procs>>

\* The ConfigManager, the connections that are open and the calls that are
\* running statement by statement.
aside == <<cm, conns, procs>>

\* The configuration, the backup files and the state of the database file:
\* what the calls of TaskService leave alone.
env == <<config, files, store, aside>>

(***************************************************************************)
(* Bounds of the model.                                                    *)
(***************************************************************************)
MaxCreates == 2
MaxTime == 1
MaxCallers == 2
MaxOpen == 4

(***************************************************************************)
(* Values.                                                                 *)
(***************************************************************************)
Null == [k |-> "null", n |-> 0, s |-> <<>>]
IntV(i) == [k |-> "int", n |-> i, s |-> <<>>]
Text(str) == [k |-> "text", n |-> 0, s |-> str]
JsonList(len) == [k |-> "list", n |-> len, s |-> <<>>]

EmptyDict == [key \in {} |-> Null]

\* Python truth value of a request value: None, 0, '' and [] are false.
Truthy(v) ==
    CASE v.k = "null" -> FALSE
      [] v.k = "int" -> v.n # 0
      [] v.k = "text" -> v.s # <<>>
      [] v.k = "list" -> v.n # 0

\* dict.get(key, default)
Get(d, key, default) == IF key \in DOMAIN d THEN d[key] ELSE default

Digits == <<"0", "1", "2", "3", "4", "5", "6", "7", "8", "9">>

RECURSIVE IntToText(_)
IntToText(i) ==
    IF i < 0 THEN <<"-">> \o IntToText(0 - i)
    ELSE IF i < 10 THEN <<Digits[i + 1]>>
    ELSE IntToText(i \div 10) \o <<Digits[(i % 10) + 1]>>

DigitValue(c) == CHOOSE d \in 0..9 : Digits[d + 1] = c

IsDigit(c) == \E d \in 1..10 : Digits[d] = c

RECURSIVE DigitsToNat(_)
DigitsToNat(str) ==
    IF str = <<>> THEN 0
    ELSE 10 * DigitsToNat(SubSeq(str, 1, Len(str) - 1)) + DigitValue(str[Len(str)])

\* A text that is a well-formed integer literal: an optional sign and digits.
IsIntLiteral(str) ==
    LET body == IF str # <<>> /\ Head(str) = "-" THEN Tail(str) ELSE str
    IN  body # <<>> /\ \A i \in 1..Len(body) : IsDigit(body[i])

LiteralValue(str) ==
    IF Head(str) = "-" THEN 0 - DigitsToNat(Tail(str)) ELSE DigitsToNat(str)

(***************************************************************************)
(* The tasks table: column affinities and constraints of the schema.       *)
(***************************************************************************)
\* A value stored in a TEXT column: an integer is converted to its text.
TextAffinity(v) == IF v.k = "int" THEN Text(IntToText(v.n)) ELSE v

\* A value stored in an INTEGER column: a text that reads as an integer is
\* converted to it, any other text is stored as it is.
IntegerAffinity(v) ==
    IF v.k = "text" /\ IsIntLiteral(v.s) THEN IntV(LiteralValue(v.s)) ELSE v

Affinity(col, v) == IF col = "priority" THEN IntegerAffinity(v) ELSE TextAffinity(v)

\* sqlite3 binds None, int and str; any other Python object raises.
Bindable(v) == v.k \in {"null", "int", "text"}

\* title TEXT NOT NULL
NotNullOk(col, v) == col # "title" \/ v.k # "null"

Ok(t) == [err |-> FALSE, tasks |-> t]
Raised(t) == [err |-> TRUE, tasks |-> t]

\* InsertTask keeping, when a value cannot be bound, the row with the other
\* values.
InsertTask_partial(t, id, title, description, status, priority, created, updated) ==
    IF id \in DOMAIN t \/ ~ NotNullOk("title", title) \/ ~ Bindable(title)
    THEN Raised(t)
    ELSE LET Stored(col, v) == IF Bindable(v) THEN Affinity(col, v) ELSE Null
             row == [id |-> id,
                     title |-> Stored("title", title),
                     description |-> Stored("description", description),
                     status |-> Stored("status", status),
                     priority |-> Stored("priority", priority),
                     created_at |-> created,
                     updated_at |-> updated]
             written == [i \in DOMAIN t \cup {id} |-> IF i = id THEN row ELSE t[i]]
         IN  IF Bindable(description) /\ Bindable(status) /\ Bindable(priority)
             THEN Ok(written)
             ELSE Raised(written)

\* INSERT INTO tasks (...) VALUES (?, ?, ?, ?, ?, ?, ?), committed.
InsertTask(t, id, title, description, status, priority, created, updated) ==
    IF ~ (Bindable(title) /\ Bindable(description) /\ Bindable(status) /\ Bindable(priority))
    THEN Raised(t)
    ELSE IF id \in DOMAIN t \/ ~ NotNullOk("title", title)
    THEN Raised(t)
    ELSE Ok([i \in DOMAIN t \cup {id} |->
               IF i = id
               THEN [id |-> id,
                     title |-> Affinity("title", title),
                     description |-> Affinity("description", description),
                     status |-> Affinity("status", status),
                     priority |-> Affinity("priority", priority),
                     created_at |-> created,
                     updated_at |-> updated]
               ELSE t[i]])

\* UpdateTaskRow without its WHERE clause: every row is written.
UpdateTaskRow_all_rows(t, id, sets) ==
    IF \E col \in DOMAIN sets : ~ Bindable(sets[col])
    THEN Raised(t)
    ELSE IF \E col \in DOMAIN sets : ~ NotNullOk(col, sets[col])
    THEN Raised(t)
    ELSE Ok([i \in DOMAIN t |->
               [col \in DOMAIN t[i] |->
                   IF col \in DOMAIN sets THEN Affinity(col, sets[col]) ELSE t[i][col]]])

\* UPDATE tasks SET <col> = ?, ... WHERE id = ?, committed.  sets maps the
\* columns of the SET clause to their parameters.
\* An UPDATE that inserts the row when no row has the id.
UpdateTaskRow_upsert(t, id, sets) ==
    IF \E col \in DOMAIN sets : ~ Bindable(sets[col])
    THEN Raised(t)
    ELSE IF \E col \in DOMAIN sets : ~ NotNullOk(col, sets[col])
    THEN Raised(t)
    ELSE Ok([i \in DOMAIN t \cup {id} |->
               [col \in {"id", "title", "description", "status", "priority",
                         "created_at", "updated_at"} |->
                   IF i = id /\ col \in DOMAIN sets THEN Affinity(col, sets[col])
                   ELSE IF i \in DOMAIN t THEN t[i][col]
                   ELSE IF col = "id" THEN id
                   ELSE IF col \in {"created_at", "updated_at"} THEN 0
                   ELSE Null]])

UpdateTaskRow(t, id, sets) ==
    IF \E col \in DOMAIN sets : ~ Bindable(sets[col])
    THEN Raised(t)
    ELSE IF id \in DOMAIN t /\ \E col \in DOMAIN sets : ~ NotNullOk(col, sets[col])
    THEN Raised(t)
    ELSE Ok([i \in DOMAIN t |->
               IF i = id
               THEN [col \in DOMAIN t[i] |->
                       IF col \in DOMAIN sets THEN Affinity(col, sets[col]) ELSE t[i][col]]
               ELSE t[i]])

\* DeleteTaskRow without its WHERE clause: every row goes.
DeleteTaskRow_all_rows(t, id) == Ok([i \in {} |-> t[i]])

\* DELETE FROM tasks WHERE id = ?, committed.
DeleteTaskRow(t, id) == Ok([i \in DOMAIN t \ {id} |-> t[i]])

(***************************************************************************)
(* Python results.                                                         *)
(***************************************************************************)
None == [k |-> "None"]
Dict(d) == [k |-> "dict", d |-> d]
Bool(b) == [k |-> "bool", b |-> b]
List(l) == [k |-> "list", l |-> l]

Result(t, r) == [tasks |-> t, ret |-> r]

(***************************************************************************)
(* TaskService.                                                            *)
(***************************************************************************)
\* SELECT * FROM tasks WHERE id = ?
get_task_by_id(t, task_id) ==
    IF task_id \in DOMAIN t THEN Dict(t[task_id]) ELSE None

\* create_task reading the clock a second time for created_at.
create_task_two_clocks(t, task_data, task_id, clock) ==
    IF ~ Truthy(Get(task_data, "title", Null))
    THEN [tasks |-> t, ret |-> None]
    ELSE LET done == InsertTask(t, task_id, Get(task_data, "title", Null),
                                Get(task_data, "description", Text(<<>>)),
                                Get(task_data, "status", Text(<<"pending">>)),
                                Get(task_data, "priority", IntV(1)), clock + 1, clock)
         IN  [tasks |-> done.tasks,
              ret |-> IF done.err THEN None ELSE Dict(done.tasks[task_id])]

\* create_task without the check of the title.
create_task_unvalidated(t, task_data, task_id, clock) ==
    LET done == InsertTask(t, task_id, Get(task_data, "title", Null),
                           Get(task_data, "description", Text(<<>>)),
                           Get(task_data, "status", Text(<<"pending">>)),
                           Get(task_data, "priority", IntV(1)), clock, clock)
    IN  [tasks |-> done.tasks,
         ret |-> IF done.err THEN None ELSE Dict(done.tasks[task_id])]

create_task(t, task_data, task_id, clock) ==
    IF ~ Truthy(Get(task_data, "title", Null))
    THEN Result(t, None)
    ELSE LET title == Get(task_data, "title", Null)
             description == Get(task_data, "description", Text(<<>>))
             status == Get(task_data, "status", Text(<<"pending">>))
             priority == Get(task_data, "priority", IntV(1))
             done == InsertTask(t, task_id, title, description, status, priority,
                                clock, clock)
         IN  IF done.err
             THEN Result(done.tasks, None)
             ELSE Result(done.tasks,
                         Dict([id |-> task_id,
                               title |-> title,
                               description |-> description,
                               status |-> status,
                               priority |-> priority,
                               created_at |-> clock,
                               updated_at |-> clock]))

\* The SET clause update_task builds: the listed columns present in task_data.
\* Every key of the body taken for a field to update.
UpdateFields_any_key(task_data) == task_data

UpdateFields(task_data) ==
    [col \in {c \in {"title", "description", "status", "priority"} : c \in DOMAIN task_data}
       |-> task_data[col]]

update_task(t, task_id, task_data) ==
    LET existing_task == get_task_by_id(t, task_id)
    IN  IF existing_task = None
        THEN Result(t, None)
        ELSE IF DOMAIN UpdateFields(task_data) = {}
        THEN Result(t, existing_task)
        ELSE LET done == UpdateTaskRow(t, task_id, UpdateFields(task_data))
             IN  IF done.err
                 THEN Result(done.tasks, None)
                 ELSE Result(done.tasks, get_task_by_id(done.tasks, task_id))

delete_task(t, task_id) ==
    IF get_task_by_id(t, task_id) = None
    THEN Result(t, Bool(FALSE))
    ELSE LET done == DeleteTaskRow(t, task_id)
         IN  IF done.err
             THEN Result(done.tasks, Bool(FALSE))
             ELSE Result(done.tasks, Bool(TRUE))

(***************************************************************************)
(* get_task_stats: COUNT, GROUP BY and AVG as SQLite computes them, and    *)
(* round as Python does.  A number with two decimals is kept as its        *)
(* hundredths.                                                             *)
(***************************************************************************)
\* SELECT col, COUNT(*) FROM tasks GROUP BY col, as the dict built from it:
\* one key for each value present, NULL included.
\* GROUP BY that counts one row for each group.
GroupCount_one_each(t, col) == [v \in {t[i][col] : i \in DOMAIN t} |-> 1]

GroupCount(t, col) ==
    [v \in {t[i][col] : i \in DOMAIN t} |-> Cardinality({i \in DOMAIN t : t[i][col] = v})]

\* The digits a text starts with.
RECURSIVE LeadingDigits(_)
LeadingDigits(str) ==
    IF str = <<>> \/ ~ IsDigit(Head(str)) THEN <<>>
    ELSE <<Head(str)>> \o LeadingDigits(Tail(str))

\* The number AVG takes a stored value for: a text counts as the integer
\* it starts with, 0 when it starts with none.
Numeric(v) ==
    IF v.k = "int" THEN v.n
    ELSE IF v.s # <<>> /\ Head(v.s) = "-" THEN 0 - DigitsToNat(LeadingDigits(Tail(v.s)))
    ELSE DigitsToNat(LeadingDigits(v.s))

RECURSIVE SumPriority(_, _)
SumPriority(t, ids) ==
    IF ids = {} THEN 0
    ELSE LET i == CHOOSE x \in ids : TRUE
         IN  Numeric(t[i].priority) + SumPriority(t, ids \ {i})

\* SELECT AVG(priority) FROM tasks: NULL priorities are left out, and the
\* average of no value is NULL.  The average is kept as sum and count.
Avg(t) ==
    LET ids == {i \in DOMAIN t : t[i].priority.k # "null"}
    IN  IF ids = {} THEN Null
        ELSE [k |-> "real", sum |-> SumPriority(t, ids), count |-> Cardinality(ids)]

\* round(sum / count, 2) cutting the digits after the second decimal.
Round2_truncated(sum, count) == (100 * sum) \div count

\* round(sum / count, 2), in hundredths: the nearest, the even one of two
\* equally near.
Round2(sum, count) ==
    LET floor == (100 * sum) \div count
        rest == (100 * sum) - (floor * count)
    IN  IF 2 * rest < count THEN floor
        ELSE IF 2 * rest > count THEN floor + 1
        ELSE IF floor % 2 = 0 THEN floor ELSE floor + 1

\* The dict of the except branch.
StatsOnError ==
    Dict([total |-> 0, by_status |-> EmptyDict, by_priority |-> EmptyDict,
          avg_priority |-> 0])

\* get_task_stats without its except branch: the TypeError of round(None, 2)
\* leaves the caller without an answer.
get_task_stats_unguarded(t) ==
    IF Avg(t) = Null THEN None
    ELSE Dict([total |-> Cardinality(DOMAIN t),
               by_status |-> GroupCount(t, "status"),
               by_priority |-> GroupCount(t, "priority"),
               avg_priority |-> Round2(Avg(t).sum, Avg(t).count)])

\* round(avg_priority, 2) raises TypeError when AVG returned NULL (the row
\* fetched is not empty, so avg_priority is None), and the except branch
\* answers.
get_task_stats(t) ==
    IF Avg(t) = Null
    THEN StatsOnError
    ELSE Dict([total |-> Cardinality(DOMAIN t),
               by_status |-> GroupCount(t, "status"),
               by_priority |-> GroupCount(t, "priority"),
               avg_priority |-> Round2(Avg(t).sum, Avg(t).count)])

(***************************************************************************)
(* get_all_tasks: the WHERE clause, LIKE and ORDER BY as SQLite computes   *)
(* them.                                                                   *)
(***************************************************************************)
\* LIKE folds the case of ASCII letters.
Lower(c) == IF c = "A" THEN "a" ELSE IF c = "B" THEN "b" ELSE c

\* text LIKE pattern: % matches any run of symbols, _ any one symbol.
RECURSIVE Like(_, _)
Like(pattern, str) ==
    IF pattern = <<>> THEN str = <<>>
    ELSE IF Head(pattern) = "%"
    THEN Like(Tail(pattern), str) \/ (str # <<>> /\ Like(pattern, Tail(str)))
    ELSE /\ str # <<>>
         /\ Head(pattern) = "_" \/ Lower(Head(pattern)) = Lower(Head(str))
         /\ Like(Tail(pattern), Tail(str))

\* column LIKE ?: NULL LIKE anything is not true.
ColumnLike(v, pattern) == v.k = "text" /\ Like(pattern, v.s)

\* column = ?: the parameter takes the column's affinity; NULL equals nothing.
ColumnEquals(col, v, param) == v.k # "null" /\ v = Affinity(col, param)

\* The symbols of the model in the order of their spelling (BINARY collation).
Symbols ==
    <<"%", "-", "0", "1", "2", "3", "4", "5", "6", "7", "8", "9", "A", "B", "_",
      "a", "b", "cancelled", "completed", "d", "done", "in_progress", "pending">>

SymbolCode(c) == CHOOSE i \in 1..Len(Symbols) : Symbols[i] = c

RECURSIVE TextLess(_, _)
TextLess(a, b) ==
    IF b = <<>> THEN FALSE
    ELSE IF a = <<>> THEN TRUE
    ELSE IF Head(a) = Head(b) THEN TextLess(Tail(a), Tail(b))
    ELSE SymbolCode(Head(a)) < SymbolCode(Head(b))

\* ORDER BY: NULL sorts first, then the integers, then the texts.
ClassRank(v) == IF v.k = "null" THEN 0 ELSE IF v.k = "int" THEN 1 ELSE 2

ValueLess(a, b) ==
    IF ClassRank(a) # ClassRank(b) THEN ClassRank(a) < ClassRank(b)
    ELSE IF a.k = "int" THEN a.n < b.n
    ELSE IF a.k = "text" THEN TextLess(a.s, b.s)
    ELSE FALSE

\* The timestamps are isoformat texts; the model keeps the clock reading,
\* which orders them the same way.
SortKey(row, field) ==
    IF field \in {"created_at", "updated_at"} THEN IntV(row[field]) ELSE row[field]

Columns == {"id", "title", "description", "status", "priority", "created_at", "updated_at"}

Ordered(rows, sort_by, sort_order) ==
    \A i, j \in 1..Len(rows) :
        i < j =>
            IF sort_order = "ASC"
            THEN ~ ValueLess(SortKey(rows[j], sort_by), SortKey(rows[i], sort_by))
            ELSE ~ ValueLess(SortKey(rows[i], sort_by), SortKey(rows[j], sort_by))

\* The filter conditions get_all_tasks appends, as a predicate on a row.
FilterGiven(filters, key) == key \in DOMAIN filters /\ Truthy(filters[key])

SearchTerm(search) == <<"%">> \o search.s \o <<"%">>

Matches(row, filters) ==
    /\ FilterGiven(filters, "status") => ColumnEquals("status", row.status, filters.status)
    /\ FilterGiven(filters, "priority") =>
           ColumnEquals("priority", row.priority, filters.priority)
    /\ FilterGiven(filters, "search") =>
           \/ ColumnLike(row.title, SearchTerm(filters.search))
           \/ ColumnLike(row.description, SearchTerm(filters.search))

\* The statement raises when the ORDER BY clause interpolated into it does
\* not name a column and a direction.
QueryRaises(sort_by, sort_order) ==
    sort_by \notin Columns \/ sort_order \notin {"ASC", "DESC"}

\* The results get_all_tasks can return: the matching rows in an order the
\* ORDER BY clause allows (rows with equal keys come in any order), or []
\* when the statement raises.
get_all_tasks(t, filters, sort_by, sort_order) ==
    IF QueryRaises(sort_by, sort_order)
    THEN {List(<<>>)}
    ELSE LET ids == {i \in DOMAIN t : Matches(t[i], filters)}
             n == Cardinality(ids)
             orders == {o \in [1..n -> ids] : \A x, y \in 1..n : x # y => o[x] # o[y]}
         IN  {List([x \in 1..n |-> t[o[x]]]) :
                 o \in {p \in orders : Ordered([x \in 1..n |-> t[p[x]]], sort_by, sort_order)}}

(***************************************************************************)
(* The Flask handlers of app.py: the HTTP status each answers with.        *)
(***************************************************************************)
Response(t, r, status) == [tasks |-> t, ret |-> r, status |-> status]

\* request.json of a PUT or POST: a JSON object, or nothing.
DictTruthy(d) == DOMAIN d # {}

\* GET /api/tasks/<task_id>
api_get_task(t, task_id) ==
    LET task == get_task_by_id(t, task_id)
    IN  IF task # None THEN Response(t, task, 200) ELSE Response(t, None, 404)

\* POST /api/tasks
api_create_task(t, task_data, task_id, clock) ==
    IF ~ DictTruthy(task_data) \/ ~ Truthy(Get(task_data, "title", Null))
    THEN Response(t, None, 400)
    ELSE LET created == create_task(t, task_data, task_id, clock)
         IN  IF created.ret # None
             THEN Response(created.tasks, created.ret, 201)
             ELSE Response(created.tasks, None, 500)

\* PUT /api/tasks/<task_id>
api_update_task(t, task_id, task_data) ==
    IF ~ DictTruthy(task_data)
    THEN Response(t, None, 400)
    ELSE LET updated == update_task(t, task_id, task_data)
         IN  IF updated.ret # None
             THEN Response(updated.tasks, updated.ret, 200)
             ELSE Response(updated.tasks, None, 404)

\* DELETE /api/tasks/<task_id>
api_delete_task(t, task_id) ==
    LET deleted == delete_task(t, task_id)
    IN  IF deleted.ret = Bool(TRUE)
        THEN Response(deleted.tasks, deleted.ret, 200)
        ELSE Response(deleted.tasks, deleted.ret, 404)

\* request.args.get(name): the parameter's text, or None when absent.
\* int(text) raises ValueError unless the text reads as an integer.
IntRaises(arg) == ~ IsIntLiteral(arg.s)

valid_sort_fields == {"created_at", "updated_at", "title", "priority", "status"}

\* get_tasks passing the requested sort field on as it came.
SortField_unchecked(arg) ==
    IF arg.k = "null" THEN "created_at"
    ELSE IF arg.s = <<>> THEN "" ELSE arg.s[1]

\* The sort field and direction get_tasks passes on.
SortField(arg) ==
    LET sort_by == IF arg.k = "null" THEN "created_at"
                   ELSE IF arg.s = <<>> THEN "" ELSE arg.s[1]
    IN  IF sort_by \notin valid_sort_fields THEN "created_at" ELSE sort_by

SortOrder(arg) ==
    LET sort_order == IF arg.k = "null" THEN "DESC"
                      ELSE IF arg.s = <<>> THEN "" ELSE arg.s[1]
    IN  IF sort_order \notin {"ASC", "DESC"} THEN "DESC" ELSE sort_order

\* GET /api/tasks: the answers the handler can give.
api_get_tasks(t, args) ==
    IF Truthy(args.priority) /\ IntRaises(args.priority)
    THEN {Response(t, None, 500)}
    ELSE LET filters == [status |-> args.status,
                         priority |-> IF Truthy(args.priority)
                                      THEN IntV(LiteralValue(args.priority.s))
                                      ELSE Null,
                         search |-> args.search]
         IN  {Response(t, r, 200) :
                 r \in get_all_tasks(t, filters, SortField(args.sort_by),
                                     SortOrder(args.sort_order))}

(***************************************************************************)
(* Requests.                                                               *)
(***************************************************************************)
Pending == Text(<<"pending">>)
Completed == Text(<<"completed">>)

StatusVocabulary ==
    {Text(<<"pending">>), Text(<<"in_progress">>), Text(<<"completed">>),
     Text(<<"cancelled">>)}

\* Bodies of create calls: the title alone; every field given; every field
\* given with the priority as a text; an empty title; no title (as
\* test_8_create_task_missing_title); a null title; a JSON array as
\* description; an empty body.
CreateRequests ==
    { [title |-> Text(<<"a">>)],
      [title |-> Text(<<"b">>), description |-> Text(<<"d">>), status |-> Completed,
       priority |-> IntV(2)],
      [title |-> Text(<<"b">>), description |-> Text(<<"d">>), status |-> Completed,
       priority |-> Text(<<"2">>)],
      [title |-> Text(<<>>), description |-> Text(<<"d">>)],
      [description |-> Text(<<"d">>), status |-> Pending],
      [title |-> Null],
      [title |-> Text(<<"b">>), description |-> JsonList(1)],
      EmptyDict }

\* Bodies of update calls: an empty body; only keys update_task does not
\* list; the status with id and created_at keys; every listed field (an
\* empty title, a null description and priority, a status outside the
\* vocabulary); a null title; a JSON array as description.
UpdateRequests ==
    { EmptyDict,
      [id |-> IntV(9), created_at |-> IntV(0)],
      [status |-> Completed, id |-> IntV(9), created_at |-> IntV(0)],
      [title |-> Text(<<>>), description |-> Null, status |-> Text(<<"done">>),
       priority |-> Null],
      [title |-> Null],
      [description |-> JsonList(1)] }

TaskIds == 1..MaxCreates

(***************************************************************************)
(* The state machine: one caller at a time, one action per call.  tasks    *)
(* is the table, issued the ids of the tasks ever created, now the clock,  *)
(* last the latest call with its arguments and its answer.                 *)
(***************************************************************************)
EmptyTable == [i \in {} |-> Null]

Call(op, via, id, data, r, status) ==
    [op |-> op, via |-> via, id |-> id, data |-> data, ret |-> r, status |-> status]

\* DEFAULT_CONFIG["database"], no backup file, and the database file as
\* DatabaseManager leaves it when constructed.
DefaultBackupInterval == 86400

DEFAULT_CONFIG ==
    [backup_enabled |-> TRUE, backup_interval |-> DefaultBackupInterval, last_backup |-> Null]

NoFiles == [path \in {} |-> Null]

(***************************************************************************)
(* ConfigManager (src/config_utils.py).  DEFAULT_CONFIG is a dictionary of *)
(* section dictionaries and DEFAULT_CONFIG.copy() copies its top level     *)
(* only: a section of self._config is either the very dictionary that      *)
(* DEFAULT_CONFIG holds (shared) or a dictionary of its own.  A manager is *)
(* the record of DEFAULT_CONFIG's sections as they are now (defaults), the *)
(* names of the sections self._config shares with it, the sections it owns *)
(* and the content of config.json.                                         *)
(***************************************************************************)
NoSections == [section \in {} |-> EmptyDict]

NoConfigFile == [present |-> FALSE, content |-> NoSections]

\* get_config: self._config, section by section.
get_config(c) ==
    [section \in c.shared \cup DOMAIN c.own |->
        IF section \in c.shared THEN c.defaults[section] ELSE c.own[section]]

\* get(section, key): None for a section or a key that is not there.
get(c, section, key) ==
    IF section \notin DOMAIN get_config(c) THEN Null
    ELSE IF key \notin DOMAIN get_config(c)[section] THEN Null
    ELSE get_config(c)[section][key]

\* _save_config: json.dump to config.json; an exception of open or dump is
\* logged and swallowed.
save_config(c, writable) ==
    IF writable
    THEN [c EXCEPT !.file = [present |-> TRUE, content |-> get_config(c)]]
    ELSE c

\* self._config = DEFAULT_CONFIG.copy(): every section is DEFAULT_CONFIG's.
copy_defaults(c) == [c EXCEPT !.shared = DOMAIN c.defaults, !.own = NoSections]

\* _load_config in a fresh process: DEFAULT_CONFIG is as written in the
\* module and config.json, when there, is what self._config becomes.
load_config(file, writable) ==
    LET fresh == [defaults |-> [database |-> DEFAULT_CONFIG], shared |-> {},
                  own |-> NoSections, file |-> file]
    IN IF file.present
       THEN [fresh EXCEPT !.own = file.content]
       ELSE save_config(copy_defaults(fresh), writable)

\* self._config[section] = dictionary: a shared section is written through
\* to DEFAULT_CONFIG.
PutSection(c, section, dictionary) ==
    IF section \in c.shared
    THEN [c EXCEPT !.defaults[section] = dictionary]
    ELSE [c EXCEPT !.own = (section :> dictionary) @@ c.own]

\* self._config[section] once "if section not in self._config" has run.
SectionOf(c, section) ==
    IF section \in DOMAIN get_config(c) THEN get_config(c)[section] ELSE EmptyDict

set(c, section, key, value, writable) ==
    [cm |-> save_config(PutSection(c, section, (key :> value) @@ SectionOf(c, section)),
                        writable),
     ret |-> TRUE]

\* update_section: dict.update of the section with values.
update_section(c, section, values, writable) ==
    IF values.k # "dict"
    THEN [cm |-> c, ret |-> FALSE]
    ELSE [cm |-> save_config(PutSection(c, section, values.d @@ SectionOf(c, section)),
                             writable),
          ret |-> TRUE]

reset_to_defaults(c, writable) ==
    [cm |-> save_config(copy_defaults(c), writable), ret |-> TRUE]

\* The callers of TaskService that run at once, and a caller that has not
\* called yet.
Callers == 1..MaxCallers

Idle ==
    [op |-> "none", pc |-> "idle", id |-> 0, data |-> EmptyDict, found |-> None,
     ret |-> None, writes |-> 0, raised |-> FALSE, clean |-> TRUE,
     total |-> 0, by_status |-> EmptyDict, by_priority |-> EmptyDict]

InitRest ==
    /\ cm = load_config(NoConfigFile, TRUE)
    /\ conns = 0
    /\ procs = [caller \in Callers |-> Idle]


InitEnv ==
    /\ config = DEFAULT_CONFIG
    /\ files = NoFiles
    /\ store = "ok"
    /\ InitRest

\* str(uuid.uuid4()): an id no task ever had.
uuid4(drawn) == CHOOSE id \in TaskIds \ drawn : \A other \in TaskIds \ drawn : id <= other

Init ==
    /\ tasks = EmptyTable
    /\ issued = {}
    /\ now = 0
    /\ last = Call("init", "service", 0, EmptyDict, None, 0)
    /\ InitEnv

\* datetime.now() advances.
Tick ==
    /\ now < MaxTime
    /\ now' = now + 1
    /\ UNCHANGED <<tasks, issued, last>>
    /\ UNCHANGED env

\* create_task draws an id once the title has passed validation.
DrawsId(task_data) == Truthy(Get(task_data, "title", Null))

CanDraw(task_data) == DrawsId(task_data) => issued # TaskIds

Drawn(task_data) == IF DrawsId(task_data) THEN uuid4(issued) ELSE 0

CreateStep(task_data) ==
    /\ CanDraw(task_data)
    /\ LET r == create_task(tasks, task_data, Drawn(task_data), now)
       IN  /\ tasks' = r.tasks
           /\ last' = Call("create", "service", Drawn(task_data), task_data, r.ret, 0)
           /\ issued' = IF r.ret # None THEN issued \cup {r.ret.d.id} ELSE issued
    /\ UNCHANGED now

PostStep(task_data) ==
    /\ CanDraw(task_data)
    /\ LET r == api_create_task(tasks, task_data, Drawn(task_data), now)
       IN  /\ tasks' = r.tasks
           /\ last' = Call("create", "http", Drawn(task_data), task_data, r.ret, r.status)
           /\ issued' = IF r.ret # None THEN issued \cup {r.ret.d.id} ELSE issued
    /\ UNCHANGED now

UpdateStep(task_id, task_data) ==
    /\ LET r == update_task(tasks, task_id, task_data)
       IN  /\ tasks' = r.tasks
           /\ last' = Call("update", "service", task_id, task_data, r.ret, 0)
    /\ UNCHANGED <<issued, now>>

PutStep(task_id, task_data) ==
    /\ LET r == api_update_task(tasks, task_id, task_data)
       IN  /\ tasks' = r.tasks
           /\ last' = Call("update", "http", task_id, task_data, r.ret, r.status)
    /\ UNCHANGED <<issued, now>>

DeleteStep(task_id) ==
    /\ LET r == delete_task(tasks, task_id)
       IN  /\ tasks' = r.tasks
           /\ last' = Call("delete", "service", task_id, EmptyDict, r.ret, 0)
    /\ UNCHANGED <<issued, now>>

DeleteHttpStep(task_id) ==
    /\ LET r == api_delete_task(tasks, task_id)
       IN  /\ tasks' = r.tasks
           /\ last' = Call("delete", "http", task_id, EmptyDict, r.ret, r.status)
    /\ UNCHANGED <<issued, now>>

GetStep(task_id) ==
    /\ last' = Call("get", "service", task_id, EmptyDict, get_task_by_id(tasks, task_id), 0)
    /\ UNCHANGED <<tasks, issued, now>>

GetHttpStep(task_id) ==
    /\ LET r == api_get_task(tasks, task_id)
       IN  last' = Call("get", "http", task_id, EmptyDict, r.ret, r.status)
    /\ UNCHANGED <<tasks, issued, now>>

CreateTask == (\E task_data \in CreateRequests : CreateStep(task_data)) /\ UNCHANGED env
PostTask == (\E task_data \in CreateRequests : PostStep(task_data)) /\ UNCHANGED env
UpdateTask == (\E task_id \in TaskIds, task_data \in UpdateRequests : UpdateStep(task_id, task_data)) /\ UNCHANGED env
PutTask == (\E task_id \in TaskIds, task_data \in UpdateRequests : PutStep(task_id, task_data)) /\ UNCHANGED env
DeleteTask == (\E task_id \in TaskIds : DeleteStep(task_id)) /\ UNCHANGED env
DeleteTaskHttp == (\E task_id \in TaskIds : DeleteHttpStep(task_id)) /\ UNCHANGED env
GetTask == (\E task_id \in TaskIds : GetStep(task_id)) /\ UNCHANGED env
GetTaskHttp == (\E task_id \in TaskIds : GetHttpStep(task_id)) /\ UNCHANGED env

\* Direct calls of TaskService.
Next ==
    \/ Tick
    \/ CreateTask
    \/ UpdateTask
    \/ DeleteTask
    \/ GetTask

Spec == Init /\ [][Next]_vars

\* Calls through the Flask handlers.
NextApi ==
    \/ Tick
    \/ PostTask
    \/ PutTask
    \/ DeleteTaskHttp
    \/ GetTaskHttp

SpecApi == Init /\ [][NextApi]_vars

\* Creates, direct and through POST /api/tasks, among deletes.
NextCreate ==
    \/ Tick
    \/ CreateTask
    \/ PostTask
    \/ DeleteTask

SpecCreate == Init /\ [][NextCreate]_vars

(***************************************************************************)
(* Listing: a table some creates have filled, and one list call on it.     *)
(***************************************************************************)
\* Bodies of the creates that fill the table.
QueryCreates ==
    { [title |-> Text(<<"a", "b">>), description |-> Null, priority |-> IntV(0)],
      [title |-> Text(<<"b">>), description |-> Text(<<"A", "%">>), status |-> Completed,
       priority |-> IntV(2)],
      [title |-> Text(<<"_">>), status |-> Completed, priority |-> IntV(-1)],
      [title |-> Text(<<"b">>), priority |-> Null] }

\* The table after the creates of seq, each a body and the clock it reads.
RECURSIVE TableAfter(_)
TableAfter(seq) ==
    IF seq = <<>> THEN EmptyTable
    ELSE LET t == TableAfter(SubSeq(seq, 1, Len(seq) - 1))
             c == seq[Len(seq)]
         IN  create_task(t, c[1], uuid4(DOMAIN t), c[2]).tasks

CreateRuns ==
    {seq \in UNION {[1..n -> QueryCreates \X (0..MaxTime)] : n \in 0..MaxCreates} :
        \A i \in 1..(Len(seq) - 1) : seq[i][2] <= seq[i + 1][2]}

StatusFilters == {Null, Text(<<>>), Completed}
PriorityFilters == {Null, IntV(0), IntV(2), IntV(-1)}
SearchFilters ==
    {Null, Text(<<>>), Text(<<"a">>), Text(<<"B">>), Text(<<"_">>), Text(<<"%">>)}

Filters(status, priority, search) ==
    [status |-> status, priority |-> priority, search |-> search]

\* Arguments of get_all_tasks: filters with the default sort, and every sort
\* (or a clause that is no column or no direction) without filters.
ListCalls ==
    {[filters |-> Filters(st, pr, se), sort_by |-> "created_at", sort_order |-> "DESC"] :
        st \in StatusFilters, pr \in PriorityFilters, se \in SearchFilters}
    \cup
    {[filters |-> f, sort_by |-> sb, sort_order |-> so] :
        f \in {EmptyDict, [status |-> Completed]},
        sb \in {"created_at", "title", "priority", "status", "DROP TABLE"},
        so \in {"ASC", "DESC", "DOWN"}}

PriorityArgs == {Null, Text(<<>>), Text(<<"0">>), Text(<<"2">>), Text(<<"-", "1">>), Text(<<"a">>)}

Args(status, priority, search, sort_by, sort_order) ==
    [status |-> status, priority |-> priority, search |-> search, sort_by |-> sort_by,
     sort_order |-> sort_order]

\* Query strings of GET /api/tasks.
ListRequests ==
    {Args(st, pr, se, Null, Null) :
        st \in StatusFilters, pr \in PriorityArgs, se \in SearchFilters}
    \cup
    {Args(Null, Null, Null, sb, so) :
        sb \in {Null, Text(<<"title">>), Text(<<"priority">>), Text(<<"updated_at">>),
                Text(<<"DROP TABLE">>), Text(<<"id">>)},
        so \in {Null, Text(<<"ASC">>), Text(<<"DESC">>), Text(<<"asc">>)}}

Unanswered == [k |-> "pending"]

InitQuery ==
    /\ \E seq \in CreateRuns :
        /\ tasks = TableAfter(seq)
        /\ now = IF seq = <<>> THEN 0 ELSE seq[Len(seq)][2]
    /\ issued = DOMAIN tasks
    /\ \/ \E c \in ListCalls : last = Call("list", "service", 0, c, Unanswered, 0)
       \/ \E a \in ListRequests : last = Call("list", "http", 0, a, Unanswered, 0)
    /\ InitEnv

ListTasks ==
    /\ last.op = "list" /\ last.via = "service" /\ last.ret = Unanswered
    /\ \E r \in get_all_tasks(tasks, last.data.filters, last.data.sort_by,
                              last.data.sort_order) :
           last' = [last EXCEPT !.ret = r]
    /\ UNCHANGED <<tasks, issued, now>>
    /\ UNCHANGED env

GetTasksHttp ==
    /\ last.op = "list" /\ last.via = "http" /\ last.ret = Unanswered
    /\ \E r \in api_get_tasks(tasks, last.data) :
           last' = [last EXCEPT !.ret = r.ret, !.status = r.status]
    /\ UNCHANGED <<tasks, issued, now>>
    /\ UNCHANGED env

NextQuery ==
    \/ ListTasks
    \/ GetTasksHttp

SpecQuery == InitQuery /\ [][NextQuery]_vars

(***************************************************************************)
(* Statistics: a table some creates have filled, and one get_task_stats    *)
(* call on it.                                                             *)
(***************************************************************************)
MaxRows == 3

\* Bodies of the creates that fill the table: every status and priority a
\* create stores, the ones left out and the null ones included.
StatsCreates ==
    { [title |-> Text(<<"a">>)],
      [title |-> Text(<<"a">>), status |-> Completed, priority |-> IntV(2)],
      [title |-> Text(<<"a">>), priority |-> IntV(-1)],
      [title |-> Text(<<"a">>), priority |-> Null],
      [title |-> Text(<<"a">>), status |-> Null, priority |-> IntV(0)] }

\* The table after the creates of seq, the ids drawn in turn.
RECURSIVE StatsTable(_)
StatsTable(seq) ==
    IF seq = <<>> THEN EmptyTable
    ELSE create_task(StatsTable(SubSeq(seq, 1, Len(seq) - 1)), seq[Len(seq)], Len(seq), 0).tasks

StatsRuns == UNION {[1..n -> StatsCreates] : n \in 0..MaxRows}

InitStats ==
    /\ \E seq \in StatsRuns : tasks = StatsTable(seq)
    /\ issued = DOMAIN tasks
    /\ now = 0
    /\ last = Call("stats", "service", 0, EmptyDict, Unanswered, 0)
    /\ InitEnv

GetStats ==
    /\ last.op = "stats" /\ last.ret = Unanswered
    /\ last' = [last EXCEPT !.ret = get_task_stats(tasks)]
    /\ UNCHANGED <<tasks, issued, now>>
    /\ UNCHANGED env

NextStats == GetStats

SpecStats == InitStats /\ [][NextStats]_vars

(***************************************************************************)
(* The backup scheduler of AppSettings (src/config_utils.py).  The clock   *)
(* counts ticks, TicksPerSecond of them to a second; isoformat() writes    *)
(* the whole reading and fromisoformat() reads it back.                    *)
(***************************************************************************)
TicksPerSecond == 2

\* datetime.now().isoformat()
isoformat(clock) == Text(IntToText(clock))

\* A timestamp as isoformat() writes it, and one that carries a UTC offset
\* (written here with a final Z).
IsNaive(v) == v.k = "text" /\ IsIntLiteral(v.s)

IsAware(v) ==
    /\ v.k = "text" /\ Len(v.s) > 1
    /\ v.s[Len(v.s)] = "Z" /\ IsIntLiteral(SubSeq(v.s, 1, Len(v.s) - 1))

\* datetime.fromisoformat(text) raises unless the text is a timestamp.
fromisoformat_raises(v) == ~ IsNaive(v) /\ ~ IsAware(v)

fromisoformat(v) == LiteralValue(v.s)

\* datetime.now() - last_backup_time raises TypeError when the timestamp
\* carries an offset: now() carries none.
elapsed_raises(v) == IsAware(v)

\* should_backup_database comparing with > instead of >=.
should_backup_database_late(cfg, clock) ==
    IF ~ cfg.backup_enabled THEN FALSE
    ELSE IF cfg.last_backup = Null THEN TRUE
    ELSE IF fromisoformat_raises(cfg.last_backup) THEN TRUE
    ELSE IF elapsed_raises(cfg.last_backup) THEN TRUE
    ELSE clock - fromisoformat(cfg.last_backup) > cfg.backup_interval * TicksPerSecond

\* AppSettings.should_backup_database: elapsed is in seconds, as is the
\* interval.
should_backup_database(cfg, clock) ==
    IF ~ cfg.backup_enabled THEN FALSE
    ELSE IF cfg.last_backup = Null THEN TRUE
    ELSE IF fromisoformat_raises(cfg.last_backup) THEN TRUE
    ELSE IF elapsed_raises(cfg.last_backup) THEN TRUE
    ELSE clock - fromisoformat(cfg.last_backup) >= cfg.backup_interval * TicksPerSecond

\* AppSettings.update_last_backup_time
update_last_backup_time(cfg, clock) == [cfg EXCEPT !.last_backup = isoformat(clock)]

(***************************************************************************)
(* The scheduler's question: a configuration and a clock reading, and one  *)
(* should_backup_database call on them.                                    *)
(***************************************************************************)
\* Values of last_backup in config.json: none, texts that are no timestamp,
\* a number, a timestamp with an offset, and the timestamps of a second
\* ago, of two seconds ago and of the start.
LastBackups ==
    {Null, Text(<<>>), Text(<<"a">>), IntV(0), Text(<<"0", "Z">>),
     isoformat(0 - TicksPerSecond), isoformat(0 - (2 * TicksPerSecond)), isoformat(0)}

Configs ==
    [backup_enabled : BOOLEAN, backup_interval : {0, 1, 2}, last_backup : LastBackups]

InitDue ==
    /\ tasks = EmptyTable
    /\ issued = {}
    /\ now \in 0..MaxTime
    /\ config \in Configs
    /\ files = NoFiles
    /\ store = "ok"
    /\ InitRest
    /\ last = Call("due", "service", 0, EmptyDict, Unanswered, 0)

CheckBackupDue ==
    /\ last.op = "due" /\ last.ret = Unanswered
    /\ last' = [last EXCEPT !.ret = Bool(should_backup_database(config, now))]
    /\ UNCHANGED <<tasks, issued, now, config, files, store, aside>>

NextDue == CheckBackupDue

SpecDue == InitDue /\ [][NextDue]_vars

(***************************************************************************)
(* DatabaseManager.backup_database, the backup endpoint and the backup at  *)
(* startup.  store is the state of the database file: "ok" (it holds the   *)
(* table tasks), "missing", "corrupt" (a file that is no database, or one  *)
(* that cannot be read) or "blank" (an empty file, as sqlite3.connect      *)
(* creates).  files maps the path of each backup file to what it holds.    *)
(***************************************************************************)
Database(t) == [k |-> "db", rows |-> t]
EmptyFile == [k |-> "empty", rows |-> EmptyTable]

\* datetime.now().strftime("%Y%m%d_%H%M%S"): the reading cut to the second.
strftime(clock) == IntToText(clock \div TicksPerSecond)

DefaultBackupPath(clock) == <<"database/backup_">> \o strftime(clock) \o <<".db">>

WriteFile(fs, path, content) ==
    [p \in DOMAIN fs \cup {path} |-> IF p = path THEN content ELSE fs[p]]

BackupResult(fs, path, ret) == [files |-> fs, path |-> path, ret |-> ret]

\* backup_database copying the schema without the rows.
backup_database_no_rows(st, t, fs, backup_path, clock, openable) ==
    LET path == IF backup_path = Null THEN DefaultBackupPath(clock) ELSE backup_path.s
    IN  IF st = "missing" \/ ~ openable
        THEN BackupResult(fs, path, FALSE)
        ELSE IF st = "corrupt"
        THEN BackupResult(IF path \in DOMAIN fs THEN fs ELSE WriteFile(fs, path, EmptyFile),
                          path, FALSE)
        ELSE BackupResult(WriteFile(fs, path, Database(EmptyTable)), path, TRUE)

\* backup_database: False when the source file is missing; sqlite3.connect
\* of the destination creates it empty when it is not there; the copy
\* raises sqlite3.Error when the destination cannot be opened (openable is
\* false) or the source cannot be read, and replaces what the destination
\* held when it succeeds.
backup_database(st, t, fs, backup_path, clock, openable) ==
    LET path == IF backup_path = Null THEN DefaultBackupPath(clock) ELSE backup_path.s
    IN  IF st = "missing" \/ ~ openable
        THEN BackupResult(fs, path, FALSE)
        ELSE IF st = "corrupt"
        THEN BackupResult(IF path \in DOMAIN fs THEN fs ELSE WriteFile(fs, path, EmptyFile),
                          path, FALSE)
        ELSE BackupResult(WriteFile(fs, path, Database(t)), path, TRUE)

Outcome(cfg, done, r, status) ==
    [config |-> cfg, files |-> done.files, path |-> done.path, ret |-> r, status |-> status]

\* POST /api/system/backup
create_backup(cfg, st, t, fs, clock, openable) ==
    LET done == backup_database(st, t, fs, Null, clock, openable)
    IN  IF done.ret
        THEN Outcome(update_last_backup_time(cfg, clock), done, Bool(TRUE), 200)
        ELSE Outcome(cfg, done, Bool(FALSE), 500)

\* The backup at startup recording the time whether the backup succeeded
\* or not.
startup_records_always(cfg, st, t, fs, clock, openable) ==
    IF should_backup_database(cfg, clock)
    THEN LET done == backup_database(st, t, fs, Null, clock, openable)
         IN  Outcome(update_last_backup_time(cfg, clock), done, Bool(done.ret), 0)
    ELSE Outcome(cfg, BackupResult(fs, <<>>, FALSE), None, 0)

\* The backup at startup (__main__ of app.py): ret is None when no backup
\* was attempted.
startup(cfg, st, t, fs, clock, openable) ==
    IF should_backup_database(cfg, clock)
    THEN LET done == backup_database(st, t, fs, Null, clock, openable)
         IN  IF done.ret
             THEN Outcome(update_last_backup_time(cfg, clock), done, Bool(TRUE), 0)
             ELSE Outcome(cfg, done, Bool(FALSE), 0)
    ELSE Outcome(cfg, BackupResult(fs, <<>>, FALSE), None, 0)

(***************************************************************************)
(* Backups among the calls on the table and the loss of the database file. *)
(***************************************************************************)
\* The configurations the process starts with: backups enabled or not, the
\* interval one second, and no backup yet or one a second ago.
BackupConfigs ==
    {cfg \in Configs : /\ cfg.backup_interval = 1
                       /\ cfg.last_backup \in {Null, isoformat(0 - TicksPerSecond)}}

InitBackup ==
    /\ tasks = EmptyTable
    /\ issued = {}
    /\ now = 0
    /\ last = Call("init", "service", 0, EmptyDict, None, 0)
    /\ config \in BackupConfigs
    /\ files = NoFiles
    /\ store = "ok"
    /\ InitRest

\* The database file is deleted, or overwritten by something that is no
\* database: the rows are gone.
Damage ==
    /\ store = "ok"
    /\ store' \in {"missing", "corrupt"}
    /\ tasks' = EmptyTable
    /\ last' = Call("damage", "file", 0, EmptyDict, None, 0)
    /\ UNCHANGED <<issued, now, config, files, aside>>

BackupStep(openable) ==
    /\ LET r == create_backup(config, store, tasks, files, now, openable)
       IN  /\ config' = r.config
           /\ files' = r.files
           /\ last' = Call("backup", "http", 0, [path |-> r.path], r.ret, r.status)
    /\ UNCHANGED <<tasks, issued, now, store, aside>>

StartupStep(openable) ==
    /\ LET r == startup(config, store, tasks, files, now, openable)
       IN  /\ config' = r.config
           /\ files' = r.files
           /\ last' = Call("startup", "main", 0, [path |-> r.path], r.ret, r.status)
    /\ UNCHANGED <<tasks, issued, now, store, aside>>

Backup == \E openable \in BOOLEAN : BackupStep(openable)
Startup == \E openable \in BOOLEAN : StartupStep(openable)

\* The calls on the live table: tasks are created, updated and deleted.
LiveCreate ==
    /\ store = "ok"
    /\ CreateStep([title |-> Text(<<"a">>)])
    /\ UNCHANGED env

LiveUpdate ==
    /\ store = "ok"
    /\ \E task_id \in issued : UpdateStep(task_id, [status |-> Completed])
    /\ UNCHANGED env

LiveDelete ==
    /\ store = "ok"
    /\ \E task_id \in issued : DeleteStep(task_id)
    /\ UNCHANGED env

NextBackup ==
    \/ Tick
    \/ LiveCreate
    \/ LiveUpdate
    \/ LiveDelete
    \/ Damage
    \/ Backup
    \/ Startup

SpecBackup == InitBackup /\ [][NextBackup]_vars

(***************************************************************************)
(* The calls of TaskService on a database file that may be lost: every     *)
(* statement raises sqlite3.Error when the file is not the database, and   *)
(* each method answers from its except branch.  last.data.raised records   *)
(* that the statement raised.                                              *)
(***************************************************************************)
\* execute_query raises: no such table, or file is not a database.
Failing(st) == st # "ok"

\* get_connection: sqlite3.connect creates the file when it is missing.
Connected(st) == IF st = "missing" THEN "blank" ELSE st

Vias == {"service", "http"}

\* get_task_by_id returns None from its except branch; the handler answers
\* None with 404.
GetOnStore ==
    /\ \E task_id \in TaskIds, via \in Vias :
           LET r == IF Failing(store) THEN Response(tasks, None, 404)
                    ELSE api_get_task(tasks, task_id)
           IN  last' = Call("get", via, task_id, [raised |-> Failing(store)], r.ret,
                            IF via = "http" THEN r.status ELSE 0)
    /\ store' = Connected(store)
    /\ UNCHANGED <<tasks, issued, now, config, files, aside>>

\* get_all_tasks returns [] from its except branch; the handler answers it
\* with 200.
ListOnStore ==
    /\ \E via \in Vias :
           \E r \in IF Failing(store) THEN {Response(tasks, List(<<>>), 200)}
                     ELSE api_get_tasks(tasks, Args(Null, Null, Null, Null, Null)) :
               last' = Call("list", via, 0, [raised |-> Failing(store)], r.ret,
                            IF via = "http" THEN r.status ELSE 0)
    /\ store' = Connected(store)
    /\ UNCHANGED <<tasks, issued, now, config, files, aside>>

\* update_task reads the task first and returns None when that fails; the
\* handler answers None with 404.
UpdateOnStore ==
    /\ \E task_id \in TaskIds, via \in Vias :
           LET r == IF Failing(store) THEN Response(tasks, None, 404)
                    ELSE api_update_task(tasks, task_id, [status |-> Completed])
           IN  /\ tasks' = r.tasks
               /\ last' = Call("update", via, task_id, [raised |-> Failing(store)], r.ret,
                                IF via = "http" THEN r.status ELSE 0)
    /\ store' = Connected(store)
    /\ UNCHANGED <<issued, now, config, files, aside>>

\* delete_task reads the task first and returns False when that fails; the
\* handler answers False with 404.
DeleteOnStore ==
    /\ \E task_id \in TaskIds, via \in Vias :
           LET r == IF Failing(store) THEN Response(tasks, Bool(FALSE), 404)
                    ELSE api_delete_task(tasks, task_id)
           IN  /\ tasks' = r.tasks
               /\ last' = Call("delete", via, task_id, [raised |-> Failing(store)], r.ret,
                                IF via = "http" THEN r.status ELSE 0)
    /\ store' = Connected(store)
    /\ UNCHANGED <<issued, now, config, files, aside>>

NextFault ==
    \/ Tick
    \/ LiveCreate
    \/ Damage
    \/ GetOnStore
    \/ ListOnStore
    \/ UpdateOnStore
    \/ DeleteOnStore

SpecFault == Init /\ [][NextFault]_vars

(***************************************************************************)
(* The configuration store: set, update_section, reset_to_defaults and     *)
(* AppSettings.update_last_backup_time on one ConfigManager, config.json   *)
(* writable or not at each save, and the process started again.  last is   *)
(* the latest call; last.data holds its arguments.                         *)
(***************************************************************************)
ConfigSections == {"database", "custom"}

ConfigKeys == {"last_backup", "note"}

ConfigValues == {Text(<<"x">>)}

SectionValues ==
    {Dict([last_backup |-> isoformat(0)]), Dict([note |-> Text(<<"x">>)]), Text(<<"x">>)}

ConfigCall(op, section, key, value, writable, r) ==
    Call(op, "config", 0,
         [section |-> section, key |-> key, value |-> value, writable |-> writable],
         Bool(r), 0)

InitConfig ==
    /\ tasks = EmptyTable
    /\ issued = {}
    /\ now = 0
    /\ last = Call("init", "config", 0, EmptyDict, None, 0)
    /\ config = DEFAULT_CONFIG
    /\ files = NoFiles
    /\ store = "ok"
    /\ \E writable \in BOOLEAN : cm = load_config(NoConfigFile, writable)
    /\ conns = 0
    /\ procs = [caller \in Callers |-> Idle]

SetKey ==
    /\ \E section \in ConfigSections, key \in ConfigKeys, value \in ConfigValues,
          writable \in BOOLEAN :
          /\ cm' = set(cm, section, key, value, writable).cm
          /\ last' = ConfigCall("set", section, key, value, writable,
                                set(cm, section, key, value, writable).ret)
    /\ UNCHANGED <<tasks, issued, now, config, files, store, conns, procs>>

UpdateSection ==
    /\ \E section \in ConfigSections, values \in SectionValues, writable \in BOOLEAN :
          /\ cm' = update_section(cm, section, values, writable).cm
          /\ last' = ConfigCall("update_section", section, "", values, writable,
                                update_section(cm, section, values, writable).ret)
    /\ UNCHANGED <<tasks, issued, now, config, files, store, conns, procs>>

ResetToDefaults ==
    /\ \E writable \in BOOLEAN :
          /\ cm' = reset_to_defaults(cm, writable).cm
          /\ last' = ConfigCall("reset_to_defaults", "", "", Null, writable,
                                reset_to_defaults(cm, writable).ret)
    /\ UNCHANGED <<tasks, issued, now, config, files, store, conns, procs>>

\* update_last_backup_time: set("database", "last_backup", now.isoformat()).
RecordBackup ==
    /\ \E writable \in BOOLEAN :
          /\ cm' = set(cm, "database", "last_backup", isoformat(now), writable).cm
          /\ last' = ConfigCall("update_last_backup_time", "database", "last_backup",
                                isoformat(now), writable, TRUE)
    /\ UNCHANGED <<tasks, issued, now, config, files, store, conns, procs>>

\* The process ends and a new one constructs its ConfigManager.
Restart ==
    /\ \E writable \in BOOLEAN :
          /\ cm' = load_config(cm.file, writable)
          /\ last' = ConfigCall("load", "", "", Null, writable, TRUE)
    /\ UNCHANGED <<tasks, issued, now, config, files, store, conns, procs>>

NextConfig ==
    \/ Tick
    \/ SetKey
    \/ UpdateSection
    \/ ResetToDefaults
    \/ RecordBackup
    \/ Restart

SpecConfig == InitConfig /\ [][NextConfig]_vars

(***************************************************************************)
(* Callers at once.  Each caller makes one call of TaskService and the     *)
(* calls run statement by statement: a step is one execute_query, which    *)
(* SQLite runs whole, and between two statements of a call the statements  *)
(* of the other callers may run.  procs[caller] is the call, where it is   *)
(* (pc), what its existence check found, the statements UPDATE and DELETE  *)
(* it has issued (writes), whether a statement of it raised, the answer    *)
(* once pc is "done", and for get_task_stats the results fetched so far    *)
(* and whether the table stayed the same since its first query (clean).    *)
(* conns counts the connections that are open.                             *)
(***************************************************************************)
\* execute_query without its finally clause: closed on the way out of the
\* try block only.
execute_query_no_finally(st, n, t, done) ==
    [err |-> Failing(st) \/ done.err,
     tasks |-> IF Failing(st) THEN t ELSE done.tasks,
     conns |-> IF Failing(st) \/ done.err THEN n + 1 ELSE (n + 1) - 1]

\* execute_query: get_connection opens a connection, the statement does
\* to the table t what done says or raises, and finally closes the
\* connection on either way out.
execute_query(st, n, t, done) ==
    [err |-> Failing(st) \/ done.err,
     tasks |-> IF Failing(st) THEN t ELSE done.tasks,
     conns |-> (n + 1) - 1]

\* The bodies of the concurrent updates: a status, a title the schema
\* rejects, and a body with none of the four fields.
ConcUpdates == {[status |-> Completed], [title |-> Null], [id |-> IntV(9)]}

\* The positions between the queries of get_task_stats.
StatsPcs == {"stats_status", "stats_priority", "stats_avg"}

\* Caller c moves to state next and the table becomes t: a get_task_stats
\* of another caller that is between its queries has seen the table change.
Advance(c, next, t) ==
    [caller \in Callers |->
        IF caller = c THEN next
        ELSE IF t # tasks /\ procs[caller].pc \in StatsPcs
        THEN [procs[caller] EXCEPT !.clean = FALSE]
        ELSE procs[caller]]

InitConc ==
    /\ tasks = create_task(EmptyTable, [title |-> Text(<<"a">>)], 1, 0).tasks
    /\ issued = {1}
    /\ now = 0
    /\ last = Call("init", "service", 0, EmptyDict, None, 0)
    /\ InitEnv

\* create_task: one INSERT.
CreateInsert(c) ==
    /\ procs[c].pc = "idle"
    /\ issued # TaskIds
    /\ LET r == create_task(tasks, [title |-> Text(<<"a">>)], uuid4(issued), now)
           q == execute_query(store, conns, tasks, [err |-> r.ret = None, tasks |-> r.tasks])
       IN  /\ conns' = q.conns
           /\ tasks' = q.tasks
           /\ issued' = issued \cup {uuid4(issued)}
           /\ procs' = Advance(c, [procs[c] EXCEPT !.op = "create", !.pc = "done",
                                      !.id = uuid4(issued), !.raised = q.err,
                                      !.ret = IF q.err THEN None ELSE r.ret], q.tasks)
    /\ UNCHANGED <<now, last, config, files, store, cm>>

\* delete_task, the existence check: get_task_by_id.
DeleteCheck(c) ==
    /\ procs[c].pc = "idle"
    /\ \E task_id \in TaskIds :
          LET q == execute_query(store, conns, tasks, Ok(tasks))
              existing_task == IF q.err THEN None ELSE get_task_by_id(q.tasks, task_id)
          IN  /\ conns' = q.conns
              /\ procs' = Advance(c, [procs[c] EXCEPT !.op = "delete", !.id = task_id,
                                         !.found = existing_task, !.raised = q.err,
                                         !.ret = Bool(FALSE),
                                         !.pc = IF existing_task = None THEN "done"
                                                ELSE "delete_write"], tasks)
    /\ UNCHANGED <<tasks, issued, now, last, config, files, store, cm>>

\* delete_task answering from the number of rows its DELETE removed.
DeleteWrite_rowcount(c) ==
    /\ procs[c].pc = "delete_write"
    /\ LET q == execute_query(store, conns, tasks, DeleteTaskRow(tasks, procs[c].id))
       IN  /\ conns' = q.conns
           /\ tasks' = q.tasks
           /\ procs' = Advance(c, [procs[c] EXCEPT !.pc = "done", !.writes = @ + 1,
                                      !.raised = q.err,
                                      !.ret = Bool(~ q.err /\ procs[c].id \in DOMAIN tasks)],
                               q.tasks)
    /\ UNCHANGED <<issued, now, last, config, files, store, cm>>

\* delete_task, the DELETE statement: True unless it raised.
DeleteWrite(c) ==
    /\ procs[c].pc = "delete_write"
    /\ LET q == execute_query(store, conns, tasks, DeleteTaskRow(tasks, procs[c].id))
       IN  /\ conns' = q.conns
           /\ tasks' = q.tasks
           /\ procs' = Advance(c, [procs[c] EXCEPT !.pc = "done", !.writes = @ + 1,
                                      !.raised = q.err, !.ret = Bool(~ q.err)], q.tasks)
    /\ UNCHANGED <<issued, now, last, config, files, store, cm>>

\* update_task, the existence check and the choice of the fields.
UpdateCheck(c) ==
    /\ procs[c].pc = "idle"
    /\ \E task_id \in TaskIds, task_data \in ConcUpdates :
          LET q == execute_query(store, conns, tasks, Ok(tasks))
              existing_task == IF q.err THEN None ELSE get_task_by_id(q.tasks, task_id)
          IN  /\ conns' = q.conns
              /\ procs' = Advance(c, [procs[c] EXCEPT !.op = "update", !.id = task_id,
                                         !.data = task_data,
                                         !.found = existing_task, !.raised = q.err,
                                         !.ret = IF DOMAIN UpdateFields(task_data) = {}
                                                 THEN existing_task ELSE None,
                                         !.pc = IF existing_task = None THEN "done"
                                                ELSE IF DOMAIN UpdateFields(task_data) = {}
                                                THEN "done"
                                                ELSE "update_write"], tasks)
    /\ UNCHANGED <<tasks, issued, now, last, config, files, store, cm>>

\* update_task, the UPDATE statement.
UpdateWrite(c) ==
    /\ procs[c].pc = "update_write"
    /\ LET q == execute_query(store, conns, tasks,
                              UpdateTaskRow(tasks, procs[c].id, UpdateFields(procs[c].data)))
       IN  /\ conns' = q.conns
           /\ tasks' = q.tasks
           /\ procs' = Advance(c, [procs[c] EXCEPT !.writes = @ + 1, !.raised = q.err,
                                      !.pc = IF q.err THEN "done" ELSE "update_read"],
                               q.tasks)
    /\ UNCHANGED <<issued, now, last, config, files, store, cm>>

\* update_task, reading the task back: get_task_by_id answers None when
\* the row is not there or the query raised.
UpdateRead(c) ==
    /\ procs[c].pc = "update_read"
    /\ LET q == execute_query(store, conns, tasks, Ok(tasks))
       IN  /\ conns' = q.conns
           /\ procs' = Advance(c, [procs[c] EXCEPT !.pc = "done", !.raised = q.err,
                                      !.ret = IF q.err THEN None
                                              ELSE get_task_by_id(q.tasks, procs[c].id)],
                               tasks)
    /\ UNCHANGED <<tasks, issued, now, last, config, files, store, cm>>

\* get_task_stats, SELECT COUNT(*).
StatsTotal(c) ==
    /\ procs[c].pc = "idle"
    /\ LET q == execute_query(store, conns, tasks, Ok(tasks))
       IN  /\ conns' = q.conns
           /\ procs' = Advance(c, [procs[c] EXCEPT !.op = "stats", !.raised = q.err,
                                      !.total = Cardinality(DOMAIN q.tasks),
                                      !.ret = StatsOnError,
                                      !.pc = IF q.err THEN "done" ELSE "stats_status"],
                               tasks)
    /\ UNCHANGED <<tasks, issued, now, last, config, files, store, cm>>

\* get_task_stats, GROUP BY status.
StatsStatus(c) ==
    /\ procs[c].pc = "stats_status"
    /\ LET q == execute_query(store, conns, tasks, Ok(tasks))
       IN  /\ conns' = q.conns
           /\ procs' = Advance(c, [procs[c] EXCEPT !.raised = q.err,
                                      !.by_status = GroupCount(q.tasks, "status"),
                                      !.pc = IF q.err THEN "done" ELSE "stats_priority"],
                               tasks)
    /\ UNCHANGED <<tasks, issued, now, last, config, files, store, cm>>

\* get_task_stats, GROUP BY priority.
StatsPriority(c) ==
    /\ procs[c].pc = "stats_priority"
    /\ LET q == execute_query(store, conns, tasks, Ok(tasks))
       IN  /\ conns' = q.conns
           /\ procs' = Advance(c, [procs[c] EXCEPT !.raised = q.err,
                                      !.by_priority = GroupCount(q.tasks, "priority"),
                                      !.pc = IF q.err THEN "done" ELSE "stats_avg"],
                               tasks)
    /\ UNCHANGED <<tasks, issued, now, last, config, files, store, cm>>

\* get_task_stats, SELECT AVG(priority) and the dictionary returned;
\* round(None, 2) raises into the except branch.
StatsAvg(c) ==
    /\ procs[c].pc = "stats_avg"
    /\ LET q == execute_query(store, conns, tasks, Ok(tasks))
       IN  /\ conns' = q.conns
           /\ procs' = Advance(c, [procs[c] EXCEPT !.pc = "done", !.raised = q.err,
                                      !.ret = IF q.err \/ Avg(q.tasks) = Null
                                              THEN StatsOnError
                                              ELSE Dict([total |-> procs[c].total,
                                                         by_status |-> procs[c].by_status,
                                                         by_priority |-> procs[c].by_priority,
                                                         avg_priority |->
                                                             Round2(Avg(q.tasks).sum,
                                                                    Avg(q.tasks).count)])],
                               tasks)
    /\ UNCHANGED <<tasks, issued, now, last, config, files, store, cm>>

NextConc ==
    \E c \in Callers :
        \/ CreateInsert(c)
        \/ DeleteCheck(c)
        \/ DeleteWrite(c)
        \/ UpdateCheck(c)
        \/ UpdateWrite(c)
        \/ UpdateRead(c)
        \/ StatsTotal(c)
        \/ StatsStatus(c)
        \/ StatsPriority(c)
        \/ StatsAvg(c)

SpecConc == InitConc /\ [][NextConc]_vars

(***************************************************************************)
(* The connections of DatabaseManager's own operations: backup_database,   *)
(* get_table_info and _ensure_database_exists open connections with        *)
(* sqlite3.connect and close them with the last statements of their happy  *)
(* path; none has a finally clause.  A connection that was not closed      *)
(* stays open until the interpreter finalises the object, which is at no   *)
(* fixed time (Collect).  last.data.raised records that a statement or the *)
(* copy raised.                                                            *)
(***************************************************************************)
\* The connections backup_database leaves open: none when the source file
\* is missing (it returns before connecting) or the copy succeeds; the
\* source connection when the connect of the destination raises; both when
\* the copy raises.
backup_connections(st, openable) ==
    IF st = "missing" THEN 0
    ELSE IF ~ openable THEN 1
    ELSE IF st = "corrupt" THEN 2
    ELSE 0

ConnectorCall(op, raised, r) ==
    Call(op, "connector", 0, [raised |-> raised], r, 0)

InitConn ==
    /\ tasks = EmptyTable
    /\ issued = {}
    /\ now = 0
    /\ last = Call("init", "connector", 0, EmptyDict, None, 0)
    /\ InitEnv

BackupConn ==
    /\ \E openable \in BOOLEAN :
          LET done == backup_database(store, tasks, files, Null, now, openable)
          IN  /\ conns + backup_connections(store, openable) <= MaxOpen
              /\ conns' = conns + backup_connections(store, openable)
              /\ files' = done.files
              /\ last' = ConnectorCall("backup_database",
                                       store # "missing" /\ ~ done.ret, Bool(done.ret))
    /\ UNCHANGED <<tasks, issued, now, config, store, cm, procs>>

\* get_table_info: the tables of sqlite_master with their columns and row
\* counts; {} on sqlite3.Error, the connection not closed.  A file that
\* connect created has no table.
TableInfo ==
    /\ conns + (IF store = "corrupt" THEN 1 ELSE 0) <= MaxOpen
    /\ conns' = conns + (IF store = "corrupt" THEN 1 ELSE 0)
    /\ store' = Connected(store)
    /\ last' = ConnectorCall("get_table_info", store = "corrupt",
                             IF store = "ok"
                             THEN Dict([tasks |-> [columns |-> Columns,
                                                   row_count |-> Cardinality(DOMAIN tasks)]])
                             ELSE Dict(EmptyDict))
    /\ UNCHANGED <<tasks, issued, now, config, files, cm, procs>>

\* _ensure_database_exists, as a new DatabaseManager runs it: CREATE TABLE
\* IF NOT EXISTS makes a missing or empty file the database with no row; on
\* a file that is no database it raises, and close is not reached.
EnsureSchema ==
    /\ conns + (IF store = "corrupt" THEN 1 ELSE 0) <= MaxOpen
    /\ conns' = conns + (IF store = "corrupt" THEN 1 ELSE 0)
    /\ store' = IF store = "corrupt" THEN "corrupt" ELSE "ok"
    /\ last' = ConnectorCall("_ensure_database_exists", store = "corrupt", None)
    /\ UNCHANGED <<tasks, issued, now, config, files, cm, procs>>

\* The interpreter finalises the connection objects no name refers to.
Collect ==
    /\ conns > 0
    /\ conns' = 0
    /\ UNCHANGED <<tasks, issued, now, last, config, files, store, cm, procs>>

NextConn ==
    \/ Tick
    \/ LiveCreate
    \/ LiveDelete
    \/ Damage
    \/ BackupConn
    \/ TableInfo
    \/ EnsureSchema
    \/ Collect

SpecConn == InitConn /\ [][NextConn]_vars

(***************************************************************************)
(* Claims.                                                                 *)
(***************************************************************************)
ListedColumns == {"title", "description", "status", "priority"}

\* C1: after a successful update whose field set names at least one of
\* title, description, status, priority, the task's updated_at is strictly
\* greater than it was before the update.
C1_UpdateRefreshesUpdatedAt ==
    [][\A task_id \in TaskIds, task_data \in UpdateRequests :
          (/\ UpdateStep(task_id, task_data)
           /\ last'.ret # None
           /\ DOMAIN UpdateFields(task_data) # {})
          => tasks'[task_id].updated_at > tasks[task_id].updated_at]_vars

\* C2: every persisted task has a non-empty title.
C2_TitleNeverEmpty ==
    \A i \in DOMAIN tasks : tasks[i].title.k = "text" /\ tasks[i].title.s # <<>>

\* C3: every persisted task has created_at <= updated_at.
C3_CreatedNotAfterUpdated ==
    \A i \in DOMAIN tasks : tasks[i].created_at <= tasks[i].updated_at

\* C3 witness: an update has written a task created at an earlier clock.
C3_Witness ==
    /\ last.op = "update" /\ last.ret # None
    /\ DOMAIN UpdateFields(last.data) # {}
    /\ tasks[last.id].created_at < now

\* C4: update changes only the listed columns its field set names: the
\* other listed columns, id and created_at of the task keep their values
\* (also when the field set carries id or created_at keys), and no other
\* row changes.
C4_UpdateFrame ==
    [][\A task_id \in TaskIds, task_data \in UpdateRequests :
          UpdateStep(task_id, task_data) =>
              /\ DOMAIN tasks' = DOMAIN tasks
              /\ \A i \in DOMAIN tasks : i # task_id => tasks'[i] = tasks[i]
              /\ task_id \in DOMAIN tasks =>
                     /\ tasks'[task_id].id = tasks[task_id].id
                     /\ tasks'[task_id].created_at = tasks[task_id].created_at
                     /\ \A col \in ListedColumns \ DOMAIN task_data :
                            tasks'[task_id][col] = tasks[task_id][col]]_vars

\* C4 witness: an update carrying status, id and created_at has set the
\* status of a task whose title it left alone, beside another task.
C4_Witness ==
    /\ last.op = "update" /\ last.ret # None
    /\ {"status", "id", "created_at"} \subseteq DOMAIN last.data
    /\ "title" \notin DOMAIN last.data
    /\ tasks[last.id].title = Text(<<"a">>)
    /\ tasks[last.id].status = Completed
    /\ \E i \in DOMAIN tasks : i # last.id /\ tasks[i].status # Completed

\* The parameters create_task binds can all be stored.
Storable(task_data) ==
    /\ Bindable(Get(task_data, "title", Null))
    /\ Bindable(Get(task_data, "description", Text(<<>>)))
    /\ Bindable(Get(task_data, "status", Pending))
    /\ Bindable(Get(task_data, "priority", IntV(1)))

\* A create step, direct (http FALSE) or through the handler.
CreateCall(task_data, http) ==
    IF http THEN PostStep(task_data) ELSE CreateStep(task_data)

\* The step added exactly one row, under an id no task ever had.
AddsOneRow ==
    /\ last'.ret # None
    /\ last'.ret.d.id \notin issued
    /\ DOMAIN tasks' = DOMAIN tasks \cup {last'.ret.d.id}
    /\ last'.ret.d.id \notin DOMAIN tasks
    /\ \A i \in DOMAIN tasks : tasks'[i] = tasks[i]

\* C5 as stated: create with a non-empty title always succeeds, adds
\* exactly one row and returns an id no other task ever had; create with a
\* missing or empty title fails and leaves the table unchanged, the HTTP
\* boundary answering 400.
C5_CreateAlwaysSucceeds ==
    [][\A task_data \in CreateRequests, http \in BOOLEAN :
          CreateCall(task_data, http) =>
              IF Truthy(Get(task_data, "title", Null))
              THEN AddsOneRow /\ (http => last'.status = 201)
              ELSE /\ last'.ret = None
                   /\ tasks' = tasks
                   /\ http => last'.status = 400]_vars

\* C5 amended: create with a non-empty title whose field values the store
\* can bind succeeds, adds exactly one row and returns an id no other task
\* ever had; when a value cannot be bound create fails, adds nothing and
\* the HTTP boundary answers 500; create with a missing or empty title
\* fails and leaves the table unchanged, the HTTP boundary answering 400.
C5_CreateSucceedsWhenStorable ==
    [][\A task_data \in CreateRequests, http \in BOOLEAN :
          CreateCall(task_data, http) =>
              IF ~ Truthy(Get(task_data, "title", Null))
              THEN /\ last'.ret = None
                   /\ tasks' = tasks
                   /\ http => last'.status = 400
              ELSE IF Storable(task_data)
              THEN AddsOneRow /\ (http => last'.status = 201)
              ELSE /\ last'.ret = None
                   /\ tasks' = tasks
                   /\ http => last'.status = 500]_vars

\* C5 witness: a create through the handler has succeeded after an earlier
\* task was deleted.
C5_Witness ==
    /\ last.op = "create" /\ last.via = "http" /\ last.status = 201
    /\ last.id \in DOMAIN tasks
    /\ issued # DOMAIN tasks

\* C6: a getById right after a successful create returns the record create
\* returned: the requested title, description, status and priority, the
\* defaults for the omitted ones, and created_at = updated_at.
C6_ReadBackEqualsCreated ==
    [][\A task_id \in TaskIds :
          (/\ GetStep(task_id)
           /\ last.op = "create" /\ last.ret # None /\ last.id = task_id)
          => /\ last'.ret = last.ret
             /\ last'.ret.d.title = last.data.title
             /\ last'.ret.d.description = Get(last.data, "description", Text(<<>>))
             /\ last'.ret.d.status = Get(last.data, "status", Pending)
             /\ last'.ret.d.priority = Get(last.data, "priority", IntV(1))
             /\ last'.ret.d.created_at = last'.ret.d.updated_at]_vars

\* C7: delete of an existing id removes exactly that row and returns true,
\* after which getById finds nothing (404) and a second delete returns
\* false; delete of an id that is not there returns false and changes
\* nothing.
C7_DeleteRemovesExactlyThatRow ==
    [][\A task_id \in TaskIds :
          /\ DeleteHttpStep(task_id) =>
                 IF task_id \in DOMAIN tasks
                 THEN /\ last'.ret = Bool(TRUE) /\ last'.status = 200
                      /\ DOMAIN tasks' = DOMAIN tasks \ {task_id}
                      /\ \A i \in DOMAIN tasks' : tasks'[i] = tasks[i]
                 ELSE /\ last'.ret = Bool(FALSE) /\ last'.status = 404
                      /\ tasks' = tasks
          /\ (last.op = "delete" /\ last.id = task_id /\ last.ret = Bool(TRUE)) =>
                 /\ GetHttpStep(task_id) => last'.ret = None /\ last'.status = 404
                 /\ DeleteHttpStep(task_id) => last'.ret = Bool(FALSE)]_vars

\* C7 witness: a second delete of a deleted task has answered false, other
\* tasks being there.
C7_Witness ==
    /\ last.op = "delete" /\ last.ret = Bool(FALSE) /\ last.status = 404
    /\ last.id \in issued \ DOMAIN tasks
    /\ tasks # EmptyTable

\* The rows of a list answer.
Returned == {last.ret.l[x] : x \in 1..Len(last.ret.l)}

Rows == {tasks[i] : i \in DOMAIN tasks}

\* The filters of the answered list call, those of the handler as it
\* passes them on.
AnsweredList == last.op = "list" /\ last.ret # Unanswered /\ last.ret # None

GivenFilters ==
    IF last.via = "service" THEN last.data.filters
    ELSE [status |-> last.data.status,
          priority |-> IF last.data.priority.k = "text" /\ last.data.priority.s # <<>>
                       THEN IntV(LiteralValue(last.data.priority.s))
                       ELSE Null,
          search |-> last.data.search]

Absent(filters, key) == key \notin DOMAIN filters \/ filters[key].k = "null"

\* str contains sub, letters compared without case.
Contains(v, sub) ==
    /\ v.k = "text"
    /\ \E i \in 0..(Len(v.s) - Len(sub)) :
           \A x \in 1..Len(sub) : Lower(v.s[i + x]) = Lower(sub[x])

\* C8: list with a priority filter p returns exactly the tasks whose
\* priority is p, for every integer p, 0 and the negative ones included.
C8_PriorityFilterExact ==
    (/\ AnsweredList
     /\ ~ Absent(GivenFilters, "priority")
     /\ Absent(GivenFilters, "status") /\ Absent(GivenFilters, "search"))
    => Returned = {r \in Rows : r.priority = GivenFilters.priority}

\* C9: list with a non-empty search s returns exactly the tasks whose title
\* or description contains s as a substring, % and _ standing for
\* themselves.
C9_SearchIsSubstring ==
    (/\ AnsweredList
     /\ ~ Absent(GivenFilters, "search") /\ GivenFilters.search.s # <<>>
     /\ Absent(GivenFilters, "status") /\ Absent(GivenFilters, "priority"))
    => Returned = {r \in Rows : \/ Contains(r.title, GivenFilters.search.s)
                                \/ Contains(r.description, GivenFilters.search.s)}

\* A filter member that is present and not empty.
Present(filters, key) ==
    /\ ~ Absent(filters, key)
    /\ filters[key].k = "text" => filters[key].s # <<>>

\* C10: list returns exactly the rows that satisfy every present filter
\* (exact status, exact priority, substring search), every row when no
\* filter is present, and an empty sequence rather than an error when no
\* row matches.
C10_ListIsConjunctionOfFilters ==
    (/\ last.op = "list" /\ last.ret # Unanswered
     /\ last.via = "service" => ~ QueryRaises(last.data.sort_by, last.data.sort_order)
     /\ last.via = "http" => last.status = 200)
    => /\ last.ret.k = "list"
       /\ Returned =
              {r \in Rows :
                  /\ Present(GivenFilters, "status") => r.status = GivenFilters.status
                  /\ Present(GivenFilters, "priority") => r.priority = GivenFilters.priority
                  /\ Present(GivenFilters, "search") =>
                         \/ Contains(r.title, GivenFilters.search.s)
                         \/ Contains(r.description, GivenFilters.search.s)}

\* A query-string value that names a member of allowed.
Names(arg, allowed) == arg.k = "text" /\ arg.s \in {<<f>> : f \in allowed}

\* An HTTP list request that has been answered with the list.
AnsweredHttpList ==
    last.op = "list" /\ last.via = "http" /\ last.ret # Unanswered /\ last.status = 200

\* C11: whatever sort_by and sort_order the HTTP list endpoint receives, the
\* field it passes to get_all_tasks is one of created_at, updated_at, title,
\* priority, status and the direction is ASC or DESC; a sort_by outside the
\* list answers as sort_by=created_at does and a sort_order that is neither
\* ASC nor DESC answers as DESC does.
C11_SortIsNormalized ==
    AnsweredHttpList =>
       /\ SortField(last.data.sort_by) \in valid_sort_fields
       /\ SortOrder(last.data.sort_order) \in {"ASC", "DESC"}
       /\ ~ Names(last.data.sort_by, valid_sort_fields) =>
              /\ api_get_tasks(tasks, last.data) =
                     api_get_tasks(tasks, [last.data EXCEPT !.sort_by = Text(<<"created_at">>)])
              /\ \E r \in api_get_tasks(tasks,
                                        [last.data EXCEPT !.sort_by = Text(<<"created_at">>)]) :
                     r.ret = last.ret
       /\ ~ Names(last.data.sort_order, {"ASC", "DESC"}) =>
              /\ api_get_tasks(tasks, last.data) =
                     api_get_tasks(tasks, [last.data EXCEPT !.sort_order = Text(<<"DESC">>)])
              /\ \E r \in api_get_tasks(tasks,
                                        [last.data EXCEPT !.sort_order = Text(<<"DESC">>)]) :
                     r.ret = last.ret

\* A request sorted by "DROP TABLE" in the order "asc" is answered with two
\* tasks created at different times, the later one first.
C11_Witness ==
    /\ AnsweredHttpList
    /\ last.data.sort_by = Text(<<"DROP TABLE">>)
    /\ last.data.sort_order = Text(<<"asc">>)
    /\ Len(last.ret.l) = 2
    /\ last.ret.l[1].created_at > last.ret.l[2].created_at

\* A get_task_stats call that has been answered; the table is as it was
\* when the call was made.
AnsweredStats == last.op = "stats" /\ last.ret # Unanswered

\* C12: statistics on an empty table returns total 0, an empty by_status
\* mapping, an empty by_priority mapping and avg_priority 0.
C12_StatsOfEmptyTable ==
    (AnsweredStats /\ tasks = EmptyTable)
    => /\ last.ret.k = "dict"
       /\ last.ret.d.total = 0
       /\ DOMAIN last.ret.d.by_status = {}
       /\ DOMAIN last.ret.d.by_priority = {}
       /\ last.ret.d.avg_priority = 0

C12_Witness == AnsweredStats /\ tasks = EmptyTable /\ last.ret.k = "dict"

\* C13: on every table, rows with a null priority included, statistics
\* returns total equal to the number of rows, by_status mapping each status
\* present to the number of its rows and no other, and by_priority mapping
\* each priority present to the number of its rows.
C13_StatsCountRows ==
    AnsweredStats
    => /\ last.ret.k = "dict"
       /\ last.ret.d.total = Cardinality(DOMAIN tasks)
       /\ DOMAIN last.ret.d.by_status = {tasks[i].status : i \in DOMAIN tasks}
       /\ \A v \in DOMAIN last.ret.d.by_status :
              /\ last.ret.d.by_status[v] = Cardinality({i \in DOMAIN tasks : tasks[i].status = v})
              /\ last.ret.d.by_status[v] > 0
       /\ DOMAIN last.ret.d.by_priority = {tasks[i].priority : i \in DOMAIN tasks}
       /\ \A v \in DOMAIN last.ret.d.by_priority :
              last.ret.d.by_priority[v] =
                  Cardinality({i \in DOMAIN tasks : tasks[i].priority = v})

RECURSIVE SumOf(_, _)
SumOf(t, ids) ==
    IF ids = {} THEN 0
    ELSE LET i == CHOOSE x \in ids : TRUE IN t[i].priority.n + SumOf(t, ids \ {i})

Distance(a, b) == IF a < b THEN b - a ELSE a - b

\* C14: on a non-empty table whose priorities are all integers, avg_priority
\* is the mean of the priorities of all rows rounded to two decimals: no
\* number with two decimals is nearer to the mean.
C14_AvgIsRoundedMean ==
    (/\ AnsweredStats
     /\ tasks # EmptyTable
     /\ \A i \in DOMAIN tasks : tasks[i].priority.k = "int")
    => /\ last.ret.k = "dict"
       /\ 2 * Distance(100 * SumOf(tasks, DOMAIN tasks),
                       Cardinality(DOMAIN tasks) * last.ret.d.avg_priority)
             <= Cardinality(DOMAIN tasks)

\* Priorities 2, 2 and 1: the mean 1.666... is answered as 1.67.
C14_Witness ==
    /\ AnsweredStats
    /\ Cardinality(DOMAIN tasks) = 3
    /\ \A i \in DOMAIN tasks : tasks[i].priority.k = "int"
    /\ SumOf(tasks, DOMAIN tasks) = 5
    /\ last.ret.d.avg_priority = 167

\* The seconds between the timestamp v and the clock reading, in ticks.
Elapsed(v, clock) == clock - LiteralValue(v.s)

\* A last_backup the scheduler can compare with its clock: a text that is
\* a timestamp of the kind the clock gives, without offset.
Readable(v) == v.k = "text" /\ IsIntLiteral(v.s)

BackupCalled(openable) ==
    \/ BackupStep(openable)
    \/ StartupStep(openable) /\ last'.ret # None

Succeeded == last'.ret = Bool(TRUE)

\* C16: last_backup is written only by a step whose backup returned True,
\* and then holds the time of that step; at startup a backup is attempted
\* exactly when should_backup_database is true and recorded exactly when
\* it succeeded; the endpoint records exactly when its backup succeeded; a
\* failed backup leaves the configuration as it was, so that a startup that
\* failed is still due.
C16_RecordedOnlyAfterSuccess ==
    [][/\ config' # config =>
            \E openable \in BOOLEAN :
                /\ BackupStep(openable) \/ StartupStep(openable)
                /\ Succeeded
       /\ \A openable \in BOOLEAN :
            StartupStep(openable) =>
                /\ last'.ret # None <=> should_backup_database(config, now)
                /\ last'.ret = None => files' = files
                /\ Succeeded => config' = [config EXCEPT !.last_backup = isoformat(now)]
                /\ last'.ret = Bool(FALSE) =>
                       config' = config /\ should_backup_database(config', now')
       /\ \A openable \in BOOLEAN :
            BackupStep(openable) =>
                /\ Succeeded => config' = [config EXCEPT !.last_backup = isoformat(now)]
                /\ ~ Succeeded => config' = config]_vars

\* A startup found the backup due, made it and recorded its time.
C16_Witness ==
    /\ last.op = "startup" /\ last.ret = Bool(TRUE)
    /\ config.last_backup = isoformat(now)
    /\ last.data.path \in DOMAIN files

\* C17: a backup without destination never writes to the path of an
\* earlier backup, however short the time between the two.
C17_DefaultPathsDistinct ==
    [][\A openable \in BOOLEAN :
          (BackupCalled(openable) /\ Succeeded)
          => ~ (last'.data.path \in DOMAIN files /\ files[last'.data.path].k = "db")]_vars

\* C18: a backup that fails returns False (the endpoint answers 500),
\* leaves the database file and its rows as they were and leaves every
\* backup file, the destination included, absent or as it was; with the
\* database file missing nothing is created.
C18_FailedBackupChangesNothing ==
    [][\A openable \in BOOLEAN :
          (BackupCalled(openable) /\ ~ Succeeded)
          => /\ last'.ret = Bool(FALSE)
             /\ BackupStep(openable) => last'.status = 500
             /\ tasks' = tasks /\ store' = store
             /\ files' = files]_vars

\* C19: after a successful backup the destination holds the rows the table
\* held at that time, and no create, update or delete on the table, nor
\* anything else but a backup to the same path, changes what a backup file
\* holds.
C19_BackupIsSnapshot ==
    [][/\ \A openable \in BOOLEAN :
            (BackupCalled(openable) /\ Succeeded)
            => /\ last'.data.path \in DOMAIN files'
               /\ files'[last'.data.path] = Database(tasks)
               /\ tasks' = tasks
       /\ \A path \in DOMAIN files :
            (/\ files[path].k = "db"
             /\ ~ \E openable \in BOOLEAN :
                     BackupCalled(openable) /\ Succeeded /\ last'.data.path = path)
            => path \in DOMAIN files' /\ files'[path] = files[path]]_vars

\* A backup holds a task that has since been deleted from the table.
C19_Witness ==
    /\ last.op = "delete" /\ last.ret = Bool(TRUE)
    /\ \E path \in DOMAIN files :
           /\ files[path].k = "db"
           /\ last.id \in DOMAIN files[path].rows
           /\ last.id \notin DOMAIN tasks

\* C20: when the statement of a getById, list, update or delete raised, the
\* caller's answer differs from the answers that mean absent, empty and not
\* deleted: it is not None, [] or False, and at the HTTP boundary neither
\* 404 nor a 200 with an empty list.
C20_StoreFailureIsTold ==
    (last.op \in {"get", "list", "update", "delete"} /\ last.data.raised)
    => /\ last.ret \notin {None, List(<<>>), Bool(FALSE)}
       /\ last.via = "http" => last.status \notin {200, 404}

\* C21: a create, update or delete that fails, its statement raising or not
\* reached, leaves the table as it was: a failed create adds no row and a
\* failed update or delete changes no row.  Every step that changes the
\* table is a call, recorded in last, that did not answer None or False.
C21_FailedCallChangesNothing ==
    [][tasks' # tasks =>
          /\ last'.op \in {"create", "update", "delete"}
          /\ last'.ret \notin {None, Bool(FALSE)}]_vars

\* An update of an existing task setting title to null has failed.
C21_Witness ==
    /\ last.op = "update" /\ last.id \in DOMAIN tasks
    /\ last.data = [title |-> Null] /\ last.ret = None

\* C24: the status of every persisted task is one of pending, in_progress,
\* completed, cancelled.
C24_StatusInVocabulary ==
    \A i \in DOMAIN tasks : tasks[i].status \in StatusVocabulary

\* The original sections and keys of DEFAULT_CONFIG.
OriginalDefaults == [database |-> DEFAULT_CONFIG]

\* C25: after reset_to_defaults has reported success the configuration is
\* the original defaults, section by section and key by key, and with
\* database.last_backup unset a backup is due.
C25_ResetRestoresDefaults ==
    (last.op = "reset_to_defaults" /\ last.ret = Bool(TRUE))
    => /\ get_config(cm) = OriginalDefaults
       /\ get(cm, "database", "last_backup") = Null
       /\ should_backup_database(get_config(cm).database, now)

\* C26: after a set, update_section, reset_to_defaults or
\* update_last_backup_time that reported success, config.json holds the
\* configuration in memory.
C26_FileEqualsMemory ==
    (/\ last.op \in {"set", "update_section", "reset_to_defaults", "update_last_backup_time"}
     /\ last.ret = Bool(TRUE))
    => /\ cm.file.present
       /\ cm.file.content = get_config(cm)

\* C27: after update_section(section, values) with a dictionary the keys of
\* the section are exactly the keys of values, each with its value; with
\* anything else the call fails and neither the configuration nor config.json
\* changes.
C27_SectionReplaced ==
    [][last'.op = "update_section" =>
          IF last'.data.value.k = "dict"
          THEN /\ last'.ret = Bool(TRUE)
               /\ get_config(cm')[last'.data.section] = last'.data.value.d
          ELSE /\ last'.ret = Bool(FALSE)
               /\ cm' = cm]_vars

\* C22: every execute_query that opened a connection has closed it when it
\* returns or raises: between the statements of the callers no connection is
\* open.
C22_ConnectionsClosed == conns = 0

\* C22 witness: a call has ended on a statement that raised, and another on
\* statements that did not.
C22_Witness ==
    /\ conns = 0
    /\ \E c \in Callers : procs[c].pc = "done" /\ procs[c].raised /\ procs[c].writes = 1
    /\ \E c \in Callers : procs[c].pc = "done" /\ ~ procs[c].raised /\ procs[c].writes = 1

\* C23: an update of an id no task has answers None, and an update of an
\* existing task whose body has none of title, description, status and
\* priority answers the task as it is; either ends at the existence check,
\* having issued no write and with the table as it was.
C23_UpdateWithoutWrite ==
    [][\A c \in Callers :
          (/\ procs[c].pc = "idle" /\ procs'[c].op = "update"
           /\ \/ procs'[c].id \notin DOMAIN tasks
              \/ DOMAIN procs'[c].data \cap ListedColumns = {})
          => /\ procs'[c].pc = "done"
             /\ procs'[c].writes = 0
             /\ procs'[c].ret = IF procs'[c].id \in DOMAIN tasks
                                THEN Dict(tasks[procs'[c].id]) ELSE None
             /\ tasks' = tasks]_vars

\* C23 witness: one update of an unknown id and one update of an existing
\* task with none of the four fields have ended.
C23_Witness ==
    /\ \E c \in Callers :
          /\ procs[c].op = "update" /\ procs[c].pc = "done"
          /\ procs[c].id \notin issued /\ procs[c].ret = None /\ procs[c].writes = 0
    /\ \E c \in Callers :
          /\ procs[c].op = "update" /\ procs[c].pc = "done"
          /\ DOMAIN procs[c].data \cap ListedColumns = {}
          /\ procs[c].found # None /\ procs[c].ret = procs[c].found
          /\ procs[c].writes = 0

\* The deletes of task id that have answered True.
DeletedBy(id) ==
    {c \in Callers : /\ procs[c].op = "delete" /\ procs[c].id = id
                     /\ procs[c].pc = "done" /\ procs[c].ret = Bool(TRUE)}

\* C28 as stated: of the delete calls on one task, run at once statement by
\* statement, exactly one answers True: never two.
C28_ExactlyOneDeleteSucceeds ==
    \A id \in TaskIds : Cardinality(DeletedBy(id)) <= 1

\* C28 amended: a delete answers True exactly when its existence check found
\* the task and its DELETE statement did not raise, and then the row is gone;
\* a delete whose check runs when the row is not there answers False; and
\* once the row of a task is gone some delete has answered True.
C28_DeleteSucceedsWhenCheckFound ==
    [][/\ \A c \in Callers :
             (procs[c].pc # "done" /\ procs'[c].pc = "done" /\ procs'[c].op = "delete")
             => /\ procs'[c].ret = Bool(procs'[c].found # None /\ ~ procs'[c].raised)
                /\ procs'[c].ret = Bool(TRUE) => procs'[c].id \notin DOMAIN tasks'
                /\ (procs[c].pc = "idle" /\ procs'[c].id \notin DOMAIN tasks)
                   => procs'[c].ret = Bool(FALSE)
       /\ \A id \in issued \ DOMAIN tasks' : DeletedBy(id)' # {}]_vars

\* C28 witness: two deletes of the same task have both answered True.
C28_Witness ==
    \E id \in issued : Cardinality(DeletedBy(id)) = 2

\* C29: a row appears in the table only by the INSERT of a create, with the
\* id the create drew; and an update that ends when no row has its id, the
\* row deleted since its existence check, answers None.
C29_UpdateNeverCreates ==
    [][/\ \A id \in DOMAIN tasks' \ DOMAIN tasks :
             \E c \in Callers :
                 procs[c].pc = "idle" /\ procs'[c].op = "create" /\ procs'[c].id = id
       /\ \A c \in Callers :
             (/\ procs[c].pc # "done" /\ procs'[c].pc = "done"
              /\ procs'[c].op = "update" /\ procs'[c].id \notin DOMAIN tasks')
             => procs'[c].ret = None]_vars

\* C29 witness: an update found its task, issued its UPDATE statement after
\* a delete had removed the row, and answered None; no row has the id.
C29_Witness ==
    \E c \in Callers :
        /\ procs[c].op = "update" /\ procs[c].pc = "done"
        /\ procs[c].found # None /\ procs[c].writes = 1 /\ ~ procs[c].raised
        /\ procs[c].ret = None
        /\ procs[c].id \notin DOMAIN tasks

RECURSIVE SumCounts(_)
SumCounts(counts) ==
    IF DOMAIN counts = {} THEN 0
    ELSE LET v == CHOOSE x \in DOMAIN counts : TRUE
         IN  counts[v] + SumCounts([w \in DOMAIN counts \ {v} |-> counts[w]])

\* The answer of get_task_stats is consistent with itself.
Consistent(stats) ==
    /\ SumCounts(stats.d.by_status) = stats.d.total
    /\ SumCounts(stats.d.by_priority) = stats.d.total

\* C30 as stated: the by_status counts and the by_priority counts of every
\* get_task_stats answer add up to its total, whatever the other callers
\* did between its queries.
C30_StatsConsistent ==
    \A c \in Callers :
        (procs[c].op = "stats" /\ procs[c].pc = "done") => Consistent(procs[c].ret)

\* C30 amended: the by_status counts and the by_priority counts of a
\* get_task_stats answer add up to its total when no statement of another
\* caller changed the table between its queries.
C30_StatsConsistentWhenUndisturbed ==
    \A c \in Callers :
        (procs[c].op = "stats" /\ procs[c].pc = "done" /\ procs[c].clean)
        => Consistent(procs[c].ret)

\* C30 witness: a get_task_stats that ran undisturbed after the create of
\* another caller has counted two tasks.
C30_Witness ==
    \E c \in Callers :
        /\ procs[c].op = "stats" /\ procs[c].pc = "done" /\ procs[c].clean
        /\ procs[c].ret.d.total = 2
        /\ \E d \in Callers : procs[d].op = "create" /\ procs[d].ret # None

\* C31: backup_database, get_table_info and _ensure_database_exists have
\* closed every connection they opened when they return or raise: after a
\* call of one of them no more connections are open than before it.
C31_ConnectorClosesConnections ==
    [][last'.op \in {"backup_database", "get_table_info", "_ensure_database_exists"}
          => conns' <= conns]_vars

====
